---- MODULE Spec2Model ----
(***************************************************************************)
(* Allocation domain of cosmic.rs: Batch, OrderLine, Batch::allocate,      *)
(* Batch::deallocate, Batch::avaialble_qty and the cross-batch policy      *)
(* allocate(order_line, batches) of src/domain/model.rs.                   *)
(*                                                                         *)
(* The state is the caller's arena of batches.  Every operation of the     *)
(* domain is one action.  While a call's result is with the caller, the    *)
(* variables pre, call, ret and vec hold the batches before the call, its  *)
(* arguments, its return value and the caller's vector as the policy left  *)
(* it; Return is the caller dropping them before its next call.            *)
(***************************************************************************)
EXTENDS Integers, Sequences, FiniteSets, TLC

\* ------------------------------------------------------------------ bounds
\* Number of callers that can be inside Batch::allocate at the same time.
MaxMutators == 2

\* Largest value of the quantity type.  The source uses u32; the model keeps
\* the wrap-around arithmetic of the type at a width TLC can enumerate.
MaxQty == 2

\* Number of batches the caller creates.
MaxBatches == 2

\* Number of distinct readings of the wall clock (Local::now()).
MaxEta == 2

\* -------------------------------------------------------------- data model
Skus == {"SMALL_TABLE", "BIG_TABLE"}

Quantities == 0..MaxQty

Etas == 1..MaxEta

\* Option<u32>: None is the empty sequence, Some(n) the sequence <<n>>.
None == <<>>

Some(n) == <<n>>

\* The identifiers an order line can carry: OrderLine::new leaves None, the
\* storage layer assigns Some(_) through the public field.
LineIds == {None, Some(1)}

OrderLineNew(sku, qty) == [id |-> None, sku |-> sku, qty |-> qty]

\* The order lines callers hand in: a positive requested quantity.
OrderLines == [id : LineIds, sku : Skus, qty : 1..MaxQty]

\* Mutation: the quantity is not stored.
BatchNew_NoQty(sku, qty, now) ==
    [id |-> None, sku |-> sku, qty |-> 0, eta |-> now, allocated |-> <<>>]

BatchNew(sku, qty, now) ==
    [id |-> None, sku |-> sku, qty |-> qty, eta |-> now, allocated |-> <<>>]

\* ------------------------------------------------------------ return values
Ok == "Ok"

SkuMismatch == "SKU do not match"

AlreadyAllocated == "Order line already allocated in this batch"

InsufficientStock == "Not enough quantity in batch to allocate order line"

NotAllocated == "Cannot deallocate unallocated order"

NoBatchAvailable == "Cannot allocate order line to any batch"

\* Result<(), &'static str>: what the value carries besides its variant.  Ok
\* carries the unit value (), Err carries its message.
Unit == <<>>

Carried(r) == IF r = Ok THEN Unit ELSE <<r>>

\* ------------------------------------------------------------------- Batch
\* u32 arithmetic wraps at the width of the type (release build; the debug
\* build panics where the release build wraps).
Modulus == MaxQty + 1

\* self.allocated.iter().map(|line| line.qty).sum()
RECURSIVE allocated_qty(_)
allocated_qty(allocated) ==
    IF allocated = <<>> THEN 0
    ELSE (allocated_qty(Tail(allocated)) + Head(allocated).qty) % Modulus

\* Mutation: the allocated quantity is not subtracted.
avaialble_qty_IgnoresAllocated(b) == b.qty

avaialble_qty(b) == (b.qty - allocated_qty(b.allocated)) % Modulus

\* The additions of sum(), started from acc: true when one of them leaves the
\* range of u32.
RECURSIVE sum_overflows(_, _)
sum_overflows(allocated, acc) ==
    IF allocated = <<>> THEN FALSE
    ELSE \/ acc + Head(allocated).qty > MaxQty
         \/ sum_overflows(Tail(allocated), (acc + Head(allocated).qty) % Modulus)

\* True when the sum or the subtraction of avaialble_qty leaves the range of
\* u32; the debug build panics there, the release build wraps.
avaialble_qty_overflows(b) ==
    \/ sum_overflows(b.allocated, 0)
    \/ allocated_qty(b.allocated) > b.qty

\* What a call of avaialble_qty hands back: a number, or, when it panics
\* ("attempt to add/subtract with overflow"), no value.
Value(n) == <<n>>

Panic == <<>>

\* self.allocated.iter().any(|&x| x == order_line): equality of the values
\* behind the references (derived PartialEq on all three fields).
IsAllocated(allocated, order_line) ==
    \E i \in DOMAIN allocated : allocated[i] = order_line

\* Mutation: compares SKU and quantity only, not the identifier.
Position_IgnoringId(allocated, order_line) ==
    LET same(x) == x.sku = order_line.sku /\ x.qty = order_line.qty
    IN  IF \E i \in DOMAIN allocated : same(allocated[i])
        THEN CHOOSE i \in DOMAIN allocated :
                /\ same(allocated[i])
                /\ \A j \in DOMAIN allocated : same(allocated[j]) => i <= j
        ELSE 0

\* self.allocated.iter().position(|&x| x == order_line): index of the first
\* equal element, 0 for None.
Position(allocated, order_line) ==
    IF IsAllocated(allocated, order_line)
    THEN CHOOSE i \in DOMAIN allocated :
            /\ allocated[i] = order_line
            /\ \A j \in DOMAIN allocated : allocated[j] = order_line => i <= j
    ELSE 0

\* Mutation: Vec::remove(0), the index found is not used.
Remove_First(allocated, index) == Tail(allocated)

\* Mutation: Vec::truncate(index) in place of Vec::remove(index).
Remove_Truncate(allocated, index) == SubSeq(allocated, 1, index - 1)

\* Vec::remove(index): drops the element, shifts the rest to the left.
Remove(allocated, index) ==
    [i \in 1..(Len(allocated) - 1) |->
        IF i < index THEN allocated[i] ELSE allocated[i + 1]]

\* Mutation: the availability check is missing.
BatchAllocate_NoStockCheck(b, order_line) ==
    IF b.sku # order_line.sku
    THEN [batch |-> b, result |-> SkuMismatch]
    ELSE IF IsAllocated(b.allocated, order_line)
    THEN [batch |-> b, result |-> AlreadyAllocated]
    ELSE [batch |-> [b EXCEPT !.allocated = Append(@, order_line)],
          result |-> Ok]

\* Mutation: > in place of >= in the availability check.
BatchAllocate_StrictStock(b, order_line) ==
    IF b.sku # order_line.sku
    THEN [batch |-> b, result |-> SkuMismatch]
    ELSE IF IsAllocated(b.allocated, order_line)
    THEN [batch |-> b, result |-> AlreadyAllocated]
    ELSE IF avaialble_qty(b) > order_line.qty
    THEN [batch |-> [b EXCEPT !.allocated = Append(@, order_line)],
          result |-> Ok]
    ELSE [batch |-> b, result |-> InsufficientStock]

\* Mutation: the SKU check is missing.
BatchAllocate_NoSkuCheck(b, order_line) ==
    IF IsAllocated(b.allocated, order_line)
    THEN [batch |-> b, result |-> AlreadyAllocated]
    ELSE IF avaialble_qty(b) >= order_line.qty
    THEN [batch |-> [b EXCEPT !.allocated = Append(@, order_line)],
          result |-> Ok]
    ELSE [batch |-> b, result |-> InsufficientStock]

\* Mutation: the availability check reads the total quantity, not what is left.
BatchAllocate_TotalStock(b, order_line) ==
    IF b.sku # order_line.sku
    THEN [batch |-> b, result |-> SkuMismatch]
    ELSE IF IsAllocated(b.allocated, order_line)
    THEN [batch |-> b, result |-> AlreadyAllocated]
    ELSE IF b.qty >= order_line.qty
    THEN [batch |-> [b EXCEPT !.allocated = Append(@, order_line)],
          result |-> Ok]
    ELSE [batch |-> b, result |-> InsufficientStock]

\* Mutation: the check for an already allocated line is missing.
BatchAllocate_NoDuplicateCheck(b, order_line) ==
    IF b.sku # order_line.sku
    THEN [batch |-> b, result |-> SkuMismatch]
    ELSE IF avaialble_qty(b) >= order_line.qty
    THEN [batch |-> [b EXCEPT !.allocated = Append(@, order_line)],
          result |-> Ok]
    ELSE [batch |-> b, result |-> InsufficientStock]

\* Mutation: the availability check comes first.
BatchAllocate_StockFirst(b, order_line) ==
    IF avaialble_qty(b) < order_line.qty
    THEN [batch |-> b, result |-> InsufficientStock]
    ELSE IF b.sku # order_line.sku
    THEN [batch |-> b, result |-> SkuMismatch]
    ELSE IF IsAllocated(b.allocated, order_line)
    THEN [batch |-> b, result |-> AlreadyAllocated]
    ELSE [batch |-> [b EXCEPT !.allocated = Append(@, order_line)],
          result |-> Ok]

BatchAllocate(b, order_line) ==
    IF b.sku # order_line.sku
    THEN [batch |-> b, result |-> SkuMismatch]
    ELSE IF IsAllocated(b.allocated, order_line)
    THEN [batch |-> b, result |-> AlreadyAllocated]
    ELSE IF avaialble_qty(b) >= order_line.qty
    THEN [batch |-> [b EXCEPT !.allocated = Append(@, order_line)],
          result |-> Ok]
    ELSE [batch |-> b, result |-> InsufficientStock]

BatchDeallocate(b, order_line) ==
    LET position == Position(b.allocated, order_line)
    IN  IF position # 0
        THEN [batch |-> [b EXCEPT !.allocated = Remove(@, position)],
              result |-> Ok]
        ELSE [batch |-> b, result |-> NotAllocated]

\* ------------------------------------------------------------------ policy
\* batches.sort_by(|a, b| a.eta.cmp(&b.eta)): a stable sort of the vector of
\* batch references.  Insert places x behind every element whose eta is not
\* later than its own, so equal etas keep their input order.
\* Mutation: an unstable order, x goes in front of the elements of equal eta.
RECURSIVE Insert_BeforeEqual(_, _, _)
Insert_BeforeEqual(bs, sorted, x) ==
    IF sorted = <<>> THEN <<x>>
    ELSE IF bs[Head(sorted)].eta < bs[x].eta
    THEN <<Head(sorted)>> \o Insert_BeforeEqual(bs, Tail(sorted), x)
    ELSE <<x>> \o sorted

RECURSIVE Insert(_, _, _)
Insert(bs, sorted, x) ==
    IF sorted = <<>> THEN <<x>>
    ELSE IF bs[Head(sorted)].eta <= bs[x].eta
    THEN <<Head(sorted)>> \o Insert(bs, Tail(sorted), x)
    ELSE <<x>> \o sorted

\* Mutation: the sort is missing.
SortByEta_Unsorted(bs, v) == v

RECURSIVE SortByEta(_, _)
SortByEta(bs, v) ==
    IF v = <<>> THEN <<>>
    ELSE Insert(bs, SortByEta(bs, SubSeq(v, 1, Len(v) - 1)), v[Len(v)])

\* Mutation: every batch is tried, also after a success.
RECURSIVE AnyAllocate_NoShortCircuit(_, _, _, _)
AnyAllocate_NoShortCircuit(bs, v, order_line, i) ==
    IF i > Len(v) THEN [batches |-> bs, found |-> FALSE]
    ELSE LET r == BatchAllocate(bs[v[i]], order_line)
             after == [bs EXCEPT ![v[i]] = r.batch]
             rest == AnyAllocate_NoShortCircuit(after, v, order_line, i + 1)
         IN  [batches |-> rest.batches, found |-> (r.result = Ok) \/ rest.found]

\* Mutation: Iterator::all in place of Iterator::any (stops at the first
\* failure, true when no batch failed).
RECURSIVE AnyAllocate_All(_, _, _, _)
AnyAllocate_All(bs, v, order_line, i) ==
    IF i > Len(v) THEN [batches |-> bs, found |-> TRUE]
    ELSE LET r == BatchAllocate(bs[v[i]], order_line)
             after == [bs EXCEPT ![v[i]] = r.batch]
         IN  IF r.result # Ok
             THEN [batches |-> after, found |-> FALSE]
             ELSE AnyAllocate_All(after, v, order_line, i + 1)

\* batches.iter_mut().any(|batch| batch.allocate(order_line).is_ok()): tries
\* the batches from position i on and stops at the first success.
RECURSIVE AnyAllocate(_, _, _, _)
AnyAllocate(bs, v, order_line, i) ==
    IF i > Len(v) THEN [batches |-> bs, found |-> FALSE]
    ELSE LET r == BatchAllocate(bs[v[i]], order_line)
             after == [bs EXCEPT ![v[i]] = r.batch]
         IN  IF r.result = Ok
             THEN [batches |-> after, found |-> TRUE]
             ELSE AnyAllocate(after, v, order_line, i + 1)

\* Mutation: Ok(()) is returned whatever any() found.
allocate_AlwaysOk(bs, order_line, v) ==
    LET sorted == SortByEta(bs, v)
        r == AnyAllocate(bs, sorted, order_line, 1)
    IN  [batches |-> r.batches, vec |-> sorted, result |-> Ok]

allocate(bs, order_line, v) ==
    LET sorted == SortByEta(bs, v)
        r == AnyAllocate(bs, sorted, order_line, 1)
    IN  [batches |-> r.batches,
         vec |-> sorted,
         result |-> IF r.found THEN Ok ELSE NoBatchAvailable]

\* ------------------------------------------------------------------- state
\* conc is the state of callers that run Batch::allocate side by side:
\* inflight holds the requests <<batch, line>> that have passed the checks of
\* allocate and have not pushed yet, raced the batches on which a request
\* passed the checks while another one was in flight.
VARIABLES batches, pre, call, ret, vec, conc

vars == <<batches, pre, call, ret, vec, conc>>

NoLine == [id |-> None, sku |-> "", qty |-> 0]

\* eta is the arrival time the caller of Batch::new has for the batch, 0 in
\* every other call.
Call(op, batch, line, v) ==
    [op |-> op, batch |-> batch, line |-> line, vec |-> v, eta |-> 0]

\* The vectors of references a caller can pass to the policy: &mut references
\* are exclusive, so a batch occurs at most once.
RECURSIVE Vectors(_)
Vectors(S) ==
    {<<>>} \cup UNION {{<<x>> \o v : v \in Vectors(S \ {x})} : x \in S}

NoCall == Call("none", 0, NoLine, <<>>)

Idle == call = NoCall

Init ==
    /\ batches = <<>>
    /\ pre = <<>>
    /\ call = NoCall
    /\ ret = Ok
    /\ vec = <<>>
    /\ conc = [inflight |-> {}, raced |-> {}]

\* Batch::new(sku, qty); eta is the reading of the wall clock.  The arrival
\* time the caller has for the batch is no parameter of the constructor.
New(sku, qty) ==
    /\ Idle
    /\ Len(batches) < MaxBatches
    /\ \E now \in Etas : batches' = Append(batches, BatchNew(sku, qty, now))
    /\ pre' = batches
    /\ \E eta \in Etas :
          call' = [Call("new", Len(batches) + 1,
                        [NoLine EXCEPT !.sku = sku, !.qty = qty], <<>>)
                      EXCEPT !.eta = eta]
    /\ ret' = Ok
    /\ vec' = <<>>
    /\ UNCHANGED conc

\* batches[b].allocate(&order_line)
Allocate(b, order_line) ==
    LET r == BatchAllocate(batches[b], order_line)
    IN  /\ Idle
        /\ batches' = [batches EXCEPT ![b] = r.batch]
        /\ pre' = batches
        /\ call' = Call("allocate", b, order_line, <<>>)
        /\ ret' = r.result
        /\ vec' = <<>>
        /\ UNCHANGED conc

\* batches[b].deallocate(&order_line)
Deallocate(b, order_line) ==
    LET r == BatchDeallocate(batches[b], order_line)
    IN  /\ Idle
        /\ batches' = [batches EXCEPT ![b] = r.batch]
        /\ pre' = batches
        /\ call' = Call("deallocate", b, order_line, <<>>)
        /\ ret' = r.result
        /\ vec' = <<>>
        /\ UNCHANGED conc

\* allocate(&order_line, &mut v)
Policy(order_line, v) ==
    LET r == allocate(batches, order_line, v)
    IN  /\ Idle
        /\ batches' = r.batches
        /\ pre' = batches
        /\ call' = Call("policy", 0, order_line, v)
        /\ ret' = r.result
        /\ vec' = r.vec
        /\ UNCHANGED conc

\* batches[b].avaialble_qty(): takes &self, so the batch stays as it is.
AvailableQty(b) ==
    /\ Idle
    /\ ret' \in {Value(avaialble_qty(batches[b]))} \cup
                (IF avaialble_qty_overflows(batches[b]) THEN {Panic} ELSE {})
    /\ batches' = batches
    /\ pre' = batches
    /\ call' = Call("avaialble_qty", b, NoLine, <<>>)
    /\ vec' = <<>>
    /\ UNCHANGED conc

\* The caller drops the Result (and the vector of references) of its last call.
Return ==
    /\ ~Idle
    /\ pre' = <<>>
    /\ call' = NoCall
    /\ ret' = Ok
    /\ vec' = <<>>
    /\ UNCHANGED conc
    /\ UNCHANGED batches

Next ==
    \/ \E sku \in Skus, qty \in Quantities : New(sku, qty)
    \/ \E b \in DOMAIN batches, l \in OrderLines : Allocate(b, l)
    \/ \E b \in DOMAIN batches, l \in OrderLines : Deallocate(b, l)
    \/ \E l \in OrderLines, v \in Vectors(DOMAIN batches) : Policy(l, v)
    \/ \E b \in DOMAIN batches : AvailableQty(b)
    \/ Return

Spec == Init /\ [][Next]_vars

\* A caller that allocates through the policy only: it builds its collection
\* of batches, then hands the whole collection, in any order, to the policy
\* with every line; it never calls Batch::allocate on a batch of its choice.
NextPolicyOnly ==
    \/ \E sku \in Skus, qty \in Quantities :
          /\ \A i \in DOMAIN batches : batches[i].allocated = <<>>
          /\ New(sku, qty)
    \/ \E b \in DOMAIN batches, l \in OrderLines : Deallocate(b, l)
    \/ \E l \in OrderLines, v \in Vectors(DOMAIN batches) :
          /\ Len(v) = Len(batches)
          /\ Policy(l, v)
    \/ Return

SpecPolicyOnly == Init /\ [][NextPolicyOnly]_vars

\* Batch::allocate up to the decision of its last if: the request <<b,
\* order_line>> passes the three checks on the batch as it is now.  A request
\* that fails a check returns its error and changes nothing.
Check(b, order_line) ==
    /\ Idle
    /\ Cardinality(conc.inflight) < MaxMutators
    /\ <<b, order_line>> \notin conc.inflight
    /\ BatchAllocate(batches[b], order_line).result = Ok
    /\ conc' = [inflight |-> conc.inflight \cup {<<b, order_line>>},
                raced |-> IF \E r \in conc.inflight : r[1] = b
                          THEN conc.raced \cup {b} ELSE conc.raced]
    /\ UNCHANGED <<batches, pre, call, ret, vec>>

\* self.allocated.push(order_line) of a request that has passed the checks.
Push(b, order_line) ==
    /\ Idle
    /\ <<b, order_line>> \in conc.inflight
    /\ batches' = [batches EXCEPT ![b].allocated = Append(@, order_line)]
    /\ conc' = [conc EXCEPT !.inflight = @ \ {<<b, order_line>>}]
    /\ UNCHANGED <<pre, call, ret, vec>>

\* Callers whose allocate calls on a batch are not serialized.
NextConcurrent ==
    \/ \E sku \in Skus, qty \in Quantities : New(sku, qty)
    \/ \E b \in DOMAIN batches, l \in OrderLines : Check(b, l)
    \/ \E b \in DOMAIN batches, l \in OrderLines : Push(b, l)
    \/ Return

SpecConcurrent == Init /\ [][NextConcurrent]_vars

TypeOK ==
    /\ Len(batches) <= MaxBatches
    /\ \A i \in DOMAIN batches : batches[i].qty \in Quantities

\* ------------------------------------------------- vocabulary of the claims
\* The allocation set of a batch.
Lines(b) == {b.allocated[i] : i \in DOMAIN b.allocated}

\* Sum of the quantities of the allocated lines, as a natural number.
RECURSIVE TotalAllocated(_)
TotalAllocated(allocated) ==
    IF allocated = <<>> THEN 0
    ELSE Head(allocated).qty + TotalAllocated(Tail(allocated))

\* Available quantity of the data model: total minus allocated.
Available(b) == b.qty - TotalAllocated(b.allocated)

\* The batch would take the line: same SKU, line not present, enough left.
Accepts(b, l) ==
    /\ b.sku = l.sku
    /\ l \notin Lines(b)
    /\ l.qty <= Available(b)

\* The batches of the vector passed to the policy.
Candidates == {call.vec[i] : i \in DOMAIN call.vec}

\* The batches the last call changed.
Changed == {i \in DOMAIN batches : i \notin DOMAIN pre \/ batches[i] # pre[i]}

\* The batch the last call was made on, before and after it.
Before == pre[call.batch]

After == batches[call.batch]

\* ------------------------------------------------------------------ claims
\* C1: in every reachable state, for every batch, the sum of the quantities
\* of the order lines allocated to it is at most the batch's total quantity.
C1_AllocatedWithinTotal ==
    \A i \in DOMAIN batches : TotalAllocated(batches[i].allocated) <= batches[i].qty

\* A failing policy call left behind a batch that two lines fill completely.
C1_Witness ==
    /\ call.op = "policy"
    /\ ret = NoBatchAvailable
    /\ \E i \in Candidates :
          /\ Len(batches[i].allocated) >= 2
          /\ TotalAllocated(batches[i].allocated) = batches[i].qty
          /\ batches[i].sku = call.line.sku

\* C2: a successful policy call adds the line to a candidate that accepted it
\* and whose ETA is the earliest among the accepting candidates, wherever it
\* stood in the input vector; a batch of another SKU is never chosen.
C2_EarliestAcceptingBatch ==
    (call.op = "policy" /\ ret = Ok) =>
        \E c \in Candidates :
            /\ batches[c].allocated = Append(pre[c].allocated, call.line)
            /\ Accepts(pre[c], call.line)
            /\ pre[c].sku = call.line.sku
            /\ \A o \in Candidates :
                  Accepts(pre[o], call.line) => pre[c].eta <= pre[o].eta

\* The chosen batch stood last in the input, behind a later-ETA batch that
\* would have accepted the line too.
C2_Witness ==
    /\ call.op = "policy"
    /\ ret = Ok
    /\ Len(call.vec) = 2
    /\ Changed = {call.vec[2]}
    /\ Accepts(pre[call.vec[1]], call.line)
    /\ pre[call.vec[2]].eta < pre[call.vec[1]].eta

\* C3: a successful policy call changes exactly one batch, by appending the
\* given line to its allocations; every other batch keeps all its fields.
C3_ExactlyOneBatchChanged ==
    (call.op = "policy" /\ ret = Ok) =>
        /\ DOMAIN batches = DOMAIN pre
        /\ \E c \in Candidates :
              /\ Changed = {c}
              /\ batches[c] = [pre[c] EXCEPT !.allocated = Append(@, call.line)]

\* One batch was chosen while another candidate would have accepted the line.
C3_Witness ==
    /\ call.op = "policy"
    /\ ret = Ok
    /\ \E c \in Candidates, o \in Candidates :
          /\ c # o
          /\ Changed = {c}
          /\ Accepts(pre[o], call.line)
          /\ batches[o] = pre[o]

\* C4: the policy fails with NoBatchAvailable exactly when no candidate
\* accepts the line (the empty vector included), and then changes no batch.
C4_NoBatchAvailable ==
    call.op = "policy" =>
        /\ ret \in {Ok, NoBatchAvailable}
        /\ ret = NoBatchAvailable <=>
              (\A i \in Candidates : ~Accepts(pre[i], call.line))
        /\ ret = NoBatchAvailable => batches = pre

\* The policy failed over two candidates: one of another SKU, one of the
\* line's SKU with too little left.
C4_Witness ==
    /\ call.op = "policy"
    /\ ret = NoBatchAvailable
    /\ \E i \in Candidates, j \in Candidates :
          /\ pre[i].sku # call.line.sku
          /\ pre[j].sku = call.line.sku
          /\ call.line \notin Lines(pre[j])
          /\ Available(pre[j]) < call.line.qty

\* C5: Batch.allocate of a line of the batch's SKU, not yet allocated, with
\* a quantity of at most the available quantity succeeds, appends the line and
\* lowers the available quantity by exactly the line's quantity.
C5_AllocateSucceeds ==
    (call.op = "allocate" /\ Accepts(Before, call.line)) =>
        /\ ret = Ok
        /\ After.allocated = Append(Before.allocated, call.line)
        /\ Lines(After) = Lines(Before) \cup {call.line}
        /\ avaialble_qty(After) = avaialble_qty(Before) - call.line.qty

\* A line took exactly what was left of a batch that already held a line.
C5_Witness ==
    /\ call.op = "allocate"
    /\ ret = Ok
    /\ Before.allocated # <<>>
    /\ call.line.qty = avaialble_qty(Before)
    /\ avaialble_qty(After) = 0

\* C6: Batch.allocate of a line of another SKU fails with SkuMismatch and
\* leaves the batch as it was.
C6_SkuMismatch ==
    (call.op = "allocate" /\ Before.sku # call.line.sku) =>
        /\ ret = SkuMismatch
        /\ batches = pre

\* A line of another SKU was refused by a batch with allocations and with
\* enough left for the line's quantity.
C6_Witness ==
    /\ call.op = "allocate"
    /\ ret = SkuMismatch
    /\ Before.allocated # <<>>
    /\ Available(Before) >= call.line.qty

\* C7: Batch.allocate of a line of the batch's SKU, not yet allocated, that
\* asks for more than the available quantity fails with InsufficientStock and
\* leaves the batch as it was.
C7_InsufficientStock ==
    (/\ call.op = "allocate"
     /\ Before.sku = call.line.sku
     /\ call.line \notin Lines(Before)
     /\ call.line.qty > Available(Before)) =>
        /\ ret = InsufficientStock
        /\ batches = pre
        /\ avaialble_qty(After) = avaialble_qty(Before)

\* The line would fit the batch's total quantity, not what is left of it.
C7_Witness ==
    /\ call.op = "allocate"
    /\ ret = InsufficientStock
    /\ Before.allocated # <<>>
    /\ call.line.qty <= Before.qty

\* C8: Batch.allocate of a line equal by value to an allocated one fails with
\* AlreadyAllocated and leaves the batch as it was, whatever stock is left.
C8_AlreadyAllocated ==
    (call.op = "allocate" /\ call.line \in Lines(Before)) =>
        /\ ret = AlreadyAllocated
        /\ batches = pre
        /\ avaialble_qty(After) = avaialble_qty(Before)

\* The batch had room for the line's quantity once more.
C8_Witness ==
    /\ call.op = "allocate"
    /\ ret = AlreadyAllocated
    /\ Available(Before) >= call.line.qty

\* C9: Batch.deallocate of a line that is not, by value, in the allocation
\* set fails with NotAllocated and leaves the batch as it was.
C9_NotAllocated ==
    (call.op = "deallocate" /\ call.line \notin Lines(Before)) =>
        /\ ret = NotAllocated
        /\ batches = pre
        /\ avaialble_qty(After) = avaialble_qty(Before)

\* The batch held a line that differs from the given one in the identifier
\* only.
C9_Witness ==
    /\ call.op = "deallocate"
    /\ ret = NotAllocated
    /\ \E x \in Lines(Before) :
          /\ x.sku = call.line.sku
          /\ x.qty = call.line.qty
          /\ x.id # call.line.id

\* C10: Batch.deallocate of an allocated line succeeds; afterwards the line
\* is not in the set, every other line still is, and the available quantity
\* has grown by exactly the line's quantity.
C10_DeallocateSucceeds ==
    (call.op = "deallocate" /\ call.line \in Lines(Before)) =>
        /\ ret = Ok
        /\ call.line \notin Lines(After)
        /\ Lines(After) = Lines(Before) \ {call.line}
        /\ avaialble_qty(After) = avaialble_qty(Before) + call.line.qty
        /\ Changed = {call.batch}

\* The first of two allocated lines was deallocated.
C10_Witness ==
    /\ call.op = "deallocate"
    /\ ret = Ok
    /\ Len(Before.allocated) = 2
    /\ Before.allocated[1] = call.line
    /\ Len(After.allocated) = 1

\* C11: round trip.  After every successful Batch.allocate, deallocating the
\* same line succeeds and gives back the batch as it was before the allocate:
\* the same allocations in the same order, the same available quantity.
C11_RoundTrip ==
    (call.op = "allocate" /\ ret = Ok) =>
        LET d == BatchDeallocate(After, call.line)
        IN  /\ d.result = Ok
            /\ d.batch = Before
            /\ Lines(d.batch) = Lines(Before)
            /\ avaialble_qty(d.batch) = avaialble_qty(Before)
            /\ avaialble_qty(After) = avaialble_qty(Before) - call.line.qty

\* The line was allocated to a batch that already held another line.
C11_Witness ==
    /\ call.op = "allocate"
    /\ ret = Ok
    /\ Before.allocated # <<>>
    /\ BatchDeallocate(After, call.line).result = Ok

\* C12: in every reachable state the order lines allocated to one batch are
\* pairwise distinct by value.
C12_AllocatedLinesUnique ==
    \A b \in DOMAIN batches :
        \A i \in DOMAIN batches[b].allocated, j \in DOMAIN batches[b].allocated :
            batches[b].allocated[i] = batches[b].allocated[j] => i = j

\* The policy found the line in its only candidate, which holds a second line
\* that differs from it in the identifier only.
C12_Witness ==
    /\ call.op = "policy"
    /\ ret = NoBatchAvailable
    /\ Len(call.vec) = 1
    /\ call.line \in Lines(batches[call.vec[1]])
    /\ \E x \in Lines(batches[call.vec[1]]) :
          x.id # call.line.id /\ x.sku = call.line.sku /\ x.qty = call.line.qty

\* C13: in every reachable state the sum of the allocated quantities stays in
\* the range of the quantity type and does not exceed the total quantity, so
\* available_quantity() does not fail; it returns total minus allocated,
\* leaves the batches as they are, and returns the total quantity for a batch
\* with no allocations.
C13_AvailableQuantity ==
    /\ \A i \in DOMAIN batches :
          /\ TotalAllocated(batches[i].allocated) <= MaxQty
          /\ TotalAllocated(batches[i].allocated) <= batches[i].qty
    /\ call.op = "avaialble_qty" =>
          /\ ret # Panic
          /\ ret = Value(Before.qty - TotalAllocated(Before.allocated))
          /\ batches = pre
          /\ Before.allocated = <<>> => ret = Value(Before.qty)

\* Two lines take the whole of a batch whose total quantity is the largest
\* value of the type; the available quantity returned is 0.
C13_Witness ==
    /\ call.op = "avaialble_qty"
    /\ Before.qty = MaxQty
    /\ Len(Before.allocated) = 2
    /\ ret = Value(0)

\* C14: when lines are allocated through the policy only, every order line is
\* in the allocation set of at most one batch at a time.
C14_LineInAtMostOneBatch ==
    \A l \in OrderLines :
        Cardinality({i \in DOMAIN batches : l \in Lines(batches[i])}) <= 1

\* C15 as claimed: the value a successful policy call returns carries the
\* reference of the batch the line went to.
C15_ResultNamesChosenBatch ==
    (call.op = "policy" /\ ret = Ok) =>
        \E c \in Candidates : Changed = {c} /\ Carried(ret) = <<c>>

\* C15 as amended: a successful policy call returns Ok(()), which carries the
\* unit value and so is the same whichever batch was chosen, and exactly one
\* batch has changed; a failing call returns NoBatchAvailable and no batch has
\* changed.
C15_ResultIsUnit ==
    call.op = "policy" =>
        \/ /\ ret = Ok
           /\ Carried(ret) = Unit
           /\ \E c \in Candidates : Changed = {c}
        \/ /\ ret = NoBatchAvailable
           /\ Changed = {}

\* The policy chose the second batch of the arena, the first being a
\* candidate too, and returned the plain Ok(()).
C15_Witness ==
    /\ call.op = "policy"
    /\ ret = Ok
    /\ Carried(ret) = Unit
    /\ 1 \in Candidates
    /\ Changed = {2}

\* C16 as claimed: the new batch carries the SKU, the quantity and the ETA the
\* caller supplied, has no identifier and no allocations.
C16_BatchFromSkuQtyEta ==
    call.op = "new" =>
        After = [id |-> None, sku |-> call.line.sku, qty |-> call.line.qty,
                 eta |-> call.eta, allocated |-> <<>>]

\* C16 as amended: the new batch carries the SKU and the quantity the caller
\* supplied, has no identifier and no allocations; its ETA is a reading of the
\* clock, whatever arrival time the caller has; the batches that existed stay
\* as they were.
C16_BatchFromSkuQty ==
    call.op = "new" =>
        /\ DOMAIN batches = DOMAIN pre \cup {call.batch}
        /\ call.batch \notin DOMAIN pre
        /\ After.sku = call.line.sku
        /\ After.qty = call.line.qty
        /\ After.id = None
        /\ After.allocated = <<>>
        /\ After.eta \in Etas
        /\ \A i \in DOMAIN pre : batches[i] = pre[i]

\* A batch was constructed whose ETA is not the one its caller has for it.
C16_Witness ==
    /\ call.op = "new"
    /\ call.line.qty = MaxQty
    /\ After.qty = MaxQty
    /\ After.eta # call.eta

\* Where the batch x stands in the vector v.
PositionIn(v, x) == CHOOSE i \in DOMAIN v : v[i] = x

\* C17: among the accepting candidates that share the ETA of the chosen
\* batch, the chosen one stands first in the caller's input vector; the
\* sorted vector keeps batches of equal ETA in their input order.
C17_TiesKeepInputOrder ==
    call.op = "policy" =>
        /\ \A i \in DOMAIN vec, j \in DOMAIN vec :
              (i < j /\ pre[vec[i]].eta = pre[vec[j]].eta) =>
                  PositionIn(call.vec, vec[i]) < PositionIn(call.vec, vec[j])
        /\ ret = Ok =>
              \A c \in Changed, o \in Candidates :
                  (Accepts(pre[o], call.line) /\ pre[o].eta = pre[c].eta) =>
                      PositionIn(call.vec, c) <= PositionIn(call.vec, o)

\* Two accepting batches of equal ETA were passed in the order <<2, 1>>; the
\* line went to batch 2.
C17_Witness ==
    /\ call.op = "policy"
    /\ ret = Ok
    /\ call.vec = <<2, 1>>
    /\ pre[1].eta = pre[2].eta
    /\ Accepts(pre[1], call.line)
    /\ Accepts(pre[2], call.line)
    /\ Changed = {2}

C19_ErrorPrecedence ==
    (call.op = "allocate" /\ call.line.qty > Available(Before)) =>
        /\ Before.sku # call.line.sku => ret = SkuMismatch
        /\ (Before.sku = call.line.sku /\ call.line \in Lines(Before)) =>
              ret = AlreadyAllocated
        /\ ret # Ok

\* A line was allocated again to a batch that holds it and has nothing left.
C19_Witness ==
    /\ call.op = "allocate"
    /\ call.line \in Lines(Before)
    /\ Available(Before) = 0
    /\ ret = AlreadyAllocated

\* C20: in every reachable state every allocated order line has the SKU of
\* the batch it is allocated to.
C20_AllocatedLinesHaveBatchSku ==
    \A b \in DOMAIN batches :
        \A x \in Lines(batches[b]) : x.sku = batches[b].sku

\* A successful policy call over two batches of different SKUs, each of which
\* holds a line afterwards.
C20_Witness ==
    /\ call.op = "policy"
    /\ ret = Ok
    /\ Len(call.vec) = 2
    /\ batches[1].sku # batches[2].sku
    /\ batches[1].allocated # <<>>
    /\ batches[2].allocated # <<>>
    /\ pre[call.vec[1]].sku # call.line.sku

====
